---- MODULE Spec2Model ----
(***************************************************************************)
(* Model of netlify/functions/getAiReport.js: the Text Formatter           *)
(* (formatAiTextToHtml) and the Request Handler (handler).                 *)
(*                                                                         *)
(* Strings are sequences of tokens.  A token is one input character        *)
(* ("a", "b", " ", "\n", "*", ".", a digit) or one HTML tag inserted by    *)
(* the formatter ("<h3>", "</li>", ...).  Treating an inserted tag as one  *)
(* token is exact as long as the input holds no '<' character: no regular  *)
(* expression of the formatter can then match a part of a tag.             *)
(***************************************************************************)
EXTENDS Integers, Sequences, FiniteSets, TLC

(***************************************************************************)
(* Bounds of the model.                                                    *)
(***************************************************************************)
MaxPieces == 5
MaxItems == 3

(***************************************************************************)
(* Character classes of the regular expressions.                           *)
(***************************************************************************)
NL == "\n"
IsSpace(c) == c \in {" ", NL}
IsDigit(c) == c \in {"0", "1", "2", "3", "4", "5", "6", "7", "8", "9"}
IsDot(c) == c # NL

MatchAt(s, i, pat) ==
    /\ i + Len(pat) - 1 <= Len(s)
    /\ \A k \in 1..Len(pat) : s[i + k - 1] = pat[k]

\* String.prototype.replace with a global pattern that is a literal string.
RECURSIVE ReplaceLit(_, _, _, _)
ReplaceLit(s, i, pat, rep) ==
    IF i > Len(s) THEN <<>>
    ELSE IF MatchAt(s, i, pat)
         THEN rep \o ReplaceLit(s, i + Len(pat), pat, rep)
         ELSE <<s[i]>> \o ReplaceLit(s, i + 1, pat, rep)

\* ^ under the m flag: start of input or just after a newline.
AtLineStart(s, i) == i = 1 \/ s[i - 1] = NL

\* \s* (greedy): index of the first non-whitespace token at or after i.
RECURSIVE SkipSpaces(_, _)
SkipSpaces(s, i) ==
    IF i <= Len(s) /\ IsSpace(s[i]) THEN SkipSpaces(s, i + 1) ELSE i

\* (.*?)$ under the m flag: index just after the last token of the line.
RECURSIVE LineEnd(_, _)
LineEnd(s, i) ==
    IF i <= Len(s) /\ IsDot(s[i]) THEN LineEnd(s, i + 1) ELSE i

\* (.*?)\*\* : index of the first "**" at or after i reachable over
\* non-newline tokens, 0 when there is none.
RECURSIVE HeadingClose(_, _)
HeadingClose(s, i) ==
    IF i + 1 > Len(s) THEN 0
    ELSE IF s[i] = "*" /\ s[i + 1] = "*" THEN i
    ELSE IF IsDot(s[i]) THEN HeadingClose(s, i + 1)
    ELSE 0

\* line 9: text.replace(/\*\*(.*?)\*\*/g, '<h3>$1</h3>')
RECURSIVE ReplaceHeadings(_, _)
ReplaceHeadings(s, i) ==
    IF i > Len(s) THEN <<>>
    ELSE IF MatchAt(s, i, <<"*", "*">>) /\ HeadingClose(s, i + 2) # 0
         THEN LET j == HeadingClose(s, i + 2)
              IN  <<"<h3>">> \o SubSeq(s, i + 2, j - 1) \o <<"</h3>">>
                      \o ReplaceHeadings(s, j + 2)
         ELSE <<s[i]>> \o ReplaceHeadings(s, i + 1)

\* ^\s*[\*]\s at index i
StarBulletAt(s, i) ==
    LET j == SkipSpaces(s, i)
    IN  /\ AtLineStart(s, i)
        /\ j + 1 <= Len(s)
        /\ s[j] = "*"
        /\ IsSpace(s[j + 1])

\* line 10: html.replace(/^\s*[\*]\s(.*?)$/gm, '<li>$1</li>')
RECURSIVE ReplaceStarBullets(_, _)
ReplaceStarBullets(s, i) ==
    IF i > Len(s) THEN <<>>
    ELSE IF StarBulletAt(s, i)
         THEN LET g == SkipSpaces(s, i) + 2
                  e == LineEnd(s, g)
              IN  <<"<li>">> \o SubSeq(s, g, e - 1) \o <<"</li>">>
                      \o ReplaceStarBullets(s, e)
         ELSE <<s[i]>> \o ReplaceStarBullets(s, i + 1)

\* ^\s*\d\.\s at index i
DigitBulletAt(s, i) ==
    LET j == SkipSpaces(s, i)
    IN  /\ AtLineStart(s, i)
        /\ j + 2 <= Len(s)
        /\ IsDigit(s[j])
        /\ s[j + 1] = "."
        /\ IsSpace(s[j + 2])

\* line 11: html.replace(/^\s*\d\.\s(.*?)$/gm, '<li>$1</li>')
RECURSIVE ReplaceDigitBullets(_, _)
ReplaceDigitBullets(s, i) ==
    IF i > Len(s) THEN <<>>
    ELSE IF DigitBulletAt(s, i)
         THEN LET g == SkipSpaces(s, i) + 3
                  e == LineEnd(s, g)
              IN  <<"<li>">> \o SubSeq(s, g, e - 1) \o <<"</li>">>
                      \o ReplaceDigitBullets(s, e)
         ELSE <<s[i]>> \o ReplaceDigitBullets(s, i + 1)

\* (?:.|\n)*?<\/li> : index of the first "</li>" at or after i, 0 if none.
RECURSIVE ItemClose(_, _)
ItemClose(s, i) ==
    IF i > Len(s) THEN 0
    ELSE IF s[i] = "</li>" THEN i
    ELSE ItemClose(s, i + 1)

\* a run pattern without the trailing + (every item is a run of its own)
ItemRunEndMutant(s, i) == SkipSpaces(s, ItemClose(s, i + 1) + 1)

\* (?:<li>(?:.|\n)*?<\/li>\s*)+ starting at index i, where one iteration
\* is known to match: index just after the whole (greedy) run.
RECURSIVE ItemRunEnd(_, _)
ItemRunEnd(s, i) ==
    LET e == SkipSpaces(s, ItemClose(s, i + 1) + 1)
    IN  IF e <= Len(s) /\ s[e] = "<li>" /\ ItemClose(s, e + 1) # 0
        THEN ItemRunEnd(s, e)
        ELSE e

\* lines 12-14: wrap every run of list items in <ul>...</ul>
RECURSIVE WrapItemRuns(_, _)
WrapItemRuns(s, i) ==
    IF i > Len(s) THEN <<>>
    ELSE IF s[i] = "<li>" /\ ItemClose(s, i + 1) # 0
         THEN LET e == ItemRunEnd(s, i)
              IN  <<"<ul>">> \o SubSeq(s, i, e - 1) \o <<"</ul>">>
                      \o WrapItemRuns(s, e)
         ELSE <<s[i]>> \o WrapItemRuns(s, i + 1)

\* a paragraph step that leaves single newlines in place
ParagraphsMutant(s) ==
    ReplaceLit(ReplaceLit(s, 1, <<NL, NL>>, <<"<br><br>">>), 1,
               <<"<br><br>">>, <<"</p>", "<p>">>)

\* lines 15-18
Paragraphs(s) ==
    LET s1 == ReplaceLit(s, 1, <<NL, NL>>, <<"<br><br>">>)
        s2 == ReplaceLit(s1, 1, <<NL>>, <<" ">>)
    IN  ReplaceLit(s2, 1, <<"<br><br>">>, <<"</p>", "<p>">>)

\* line 19
WrapParagraph(s) == <<"<p>">> \o s \o <<"</p>">>

\* lines 20-26
Cleanup(s) ==
    LET c1 == ReplaceLit(s, 1, <<"<p>", "</p>">>, <<>>)
        c2 == ReplaceLit(c1, 1, <<"<p>", "<ul>">>, <<"<ul>">>)
        c3 == ReplaceLit(c2, 1, <<"</ul>", "</p>">>, <<"</ul>">>)
        c4 == ReplaceLit(c3, 1, <<"<p>", "<h3>">>, <<"<h3>">>)
        c5 == ReplaceLit(c4, 1, <<"</h3>", "</p>">>, <<"</h3>">>)
        c6 == ReplaceLit(c5, 1, <<"</h3>", "<p>">>, <<"</h3>">>)
    IN  ReplaceLit(c6, 1, <<"</ul>", "<p>">>, <<"</ul>">>)

\* lines 8-28
formatAiTextToHtml(text) ==
    Cleanup(WrapParagraph(Paragraphs(WrapItemRuns(
        ReplaceDigitBullets(ReplaceStarBullets(ReplaceHeadings(text, 1), 1), 1), 1))))

(***************************************************************************)
(* JavaScript values of the handler.  A value is [t, n]: its type and,     *)
(* for a number its value, for a boolean 0/1, for a string or an array     *)
(* its length.  Skill labels are opaque to the handler.                    *)
(***************************************************************************)
Undefined == [t |-> "undefined", n |-> 0]
Null == [t |-> "null", n |-> 0]
Val(t, n) == [t |-> t, n |-> n]

Truthy(v) ==
    CASE v.t \in {"undefined", "null"} -> FALSE
      [] v.t \in {"bool", "num", "str"} -> v.n # 0
      [] OTHER -> TRUE

\* v.length
LengthOf(v) == IF v.t \in {"arr", "str"} THEN Val("num", v.n) ELSE Undefined

\* typeof v.join === 'function'
HasJoin(v) == v.t = "arr"

\* Reading a property of v throws a TypeError.
PropertyReadThrows(v) == v.t \in {"undefined", "null"}

(***************************************************************************)
(* Inputs of one invocation.                                               *)
(***************************************************************************)
\* process.env.GOOGLE_AI_API_KEY: undefined, "" or a non-empty string
ApiKeys == {"undefined", "", "KEY"}

SkillsValues ==
    { Null, Val("bool", 0), Val("num", 0), Val("num", 5), Val("str", 0),
      Val("str", 3), Val("arr", 0), Val("arr", 1), Val("arr", 2), Val("obj", 0) }

\* event.body: absent, text that is not JSON, or the text of a JSON value.
\* top is the parsed value; an object may carry a skills field.
EventBodies ==
    { [syntax |-> x, top |-> Undefined, hasSkills |-> FALSE, skills |-> Undefined] :
          x \in {"absent", "malformed"} }
    \cup { [syntax |-> "json", top |-> v, hasSkills |-> FALSE, skills |-> Undefined] :
          v \in {Null, Val("num", 5), Val("arr", 0), Val("obj", 0)} }
    \cup { [syntax |-> "json", top |-> Val("obj", 0), hasSkills |-> TRUE, skills |-> v] :
          v \in SkillsValues }

\* JSON.parse(event.body) throws
JSONparseThrows(b) == b.syntax # "json"

\* body.skills
SkillsField(b) == IF b.hasSkills THEN b.skills ELSE Undefined

\* Texts the upstream may answer with.
UpstreamTexts ==
    { <<"a">>, <<"*", "*", "a", "*", "*", NL, "b">>, <<"*", " ", "a", NL, "*", " ", "b">> }

UpstreamStatuses == {200, 204, 400, 429, 503}

\* The body of an upstream response.  path tells how much of
\* candidates[0].content.parts[0].text exists:
\*   0 no candidates, 1 candidates is empty, 2 candidates[0] has no content,
\*   3 content has no parts, 4 parts is empty, 5 parts[0] has no text,
\*   6 text is present (textType "str" with the tokens text, or "num").
UpstreamBodies ==
    { [isJson |-> FALSE, isNull |-> FALSE, hasError |-> FALSE, message |-> "",
       path |-> 0, textType |-> "str", text |-> <<>>] }
    \cup { [isJson |-> TRUE, isNull |-> TRUE, hasError |-> FALSE, message |-> "",
            path |-> 0, textType |-> "str", text |-> <<>>] }
    \cup { [isJson |-> TRUE, isNull |-> FALSE, hasError |-> TRUE, message |-> m,
            path |-> 0, textType |-> "str", text |-> <<>>] : m \in {"", "quota"} }
    \cup { [isJson |-> TRUE, isNull |-> FALSE, hasError |-> FALSE, message |-> "",
            path |-> p, textType |-> "str", text |-> <<>>] : p \in 0..6 }
    \cup { [isJson |-> TRUE, isNull |-> FALSE, hasError |-> FALSE, message |-> "",
            path |-> 6, textType |-> "str", text |-> x] : x \in UpstreamTexts }
    \cup { [isJson |-> TRUE, isNull |-> FALSE, hasError |-> FALSE, message |-> "",
            path |-> 6, textType |-> "num", text |-> <<>>] }

NoResponse ==
    [status |-> 0, body |-> [isJson |-> FALSE, isNull |-> FALSE, hasError |-> FALSE,
        message |-> "", path |-> 0, textType |-> "str", text |-> <<>>]]

UpstreamResponses == [status : UpstreamStatuses, body : UpstreamBodies]

\* response.ok
Ok(r) == r.status \in 200..299

\* errorBody.error?.message || ''
ErrorMessageOf(b) == IF b.hasError THEN b.message ELSE ""

\* result.candidates?.[0]
CandidateOf(b) == b.path >= 2

\* candidate.content?.parts?.[0]?.text is truthy
TextTruthy(b) ==
    /\ b.path = 6
    /\ \/ b.textType = "num"
       \/ b.textType = "str" /\ b.text # <<>>

(***************************************************************************)
(* Messages.                                                               *)
(***************************************************************************)
MsgNoKey == <<"API key is not configured on the server.">>
MsgInvalidBody == <<"Invalid request body.">>
MsgNoSkills == <<"No skills provided.">>
MsgNoContent == <<"Invalid response from AI. No content found.">>
MsgApiError(status, message) == <<"API Error: ", ToString(status), " ", message>>
\* messages of faults raised by the runtime and by node-fetch
MsgFetchFailed == <<"request to https://generativelanguage.googleapis.com/ failed">>
MsgInvalidJson == <<"invalid json response body">>
MsgReadOfNull == <<"Cannot read properties of null">>
MsgNotAFunction == <<"text.replace is not a function">>
MsgJoinNotAFunction == <<"skills.join is not a function">>

NoReturn == [statusCode |-> 0, kind |-> "none", error |-> <<>>, html |-> <<>>]
ErrorResponse(code, msg) == [statusCode |-> code, kind |-> "error", error |-> msg, html |-> <<>>]
HtmlResponse(h) == [statusCode |-> 200, kind |-> "html", error |-> <<>>, html |-> h]

(***************************************************************************)
(* State.                                                                  *)
(*   handler:   pc, apiKey, eventBody, skills, upstream, error, response,  *)
(*              posts (outbound POSTs issued), parsed (JSON.parse calls on *)
(*              event.body), formatted (calls of formatAiTextToHtml)       *)
(*   formatter: fpc, text (the argument), html (the local), and for an     *)
(*              input built as a bullet list its items and bullet kind     *)
(***************************************************************************)
VARIABLES pc, apiKey, eventBody, skills, upstream, error, response,
          posts, parsed, formatted,
          fpc, text, html, items, bullet

hvars == <<pc, apiKey, eventBody, skills, upstream, error, response,
           posts, parsed, formatted>>
fvars == <<fpc, text, html, items, bullet>>
vars == <<pc, apiKey, eventBody, skills, upstream, error, response,
          posts, parsed, formatted, fpc, text, html, items, bullet>>

(***************************************************************************)
(* The handler, lines 31-109.                                              *)
(***************************************************************************)
\* a key check that tests only for an absent key
KeyNotConfiguredMutant(k) == k = "undefined"

\* line 35: !GOOGLE_AI_API_KEY
KeyNotConfigured(k) == k \in {"undefined", ""}

\* a try block that ends before the read of body.skills
ParseThrowsMutant(b) == JSONparseThrows(b)

\* lines 45-46 throw (the catch of line 47 takes over)
ParseThrows(b) == JSONparseThrows(b) \/ PropertyReadThrows(b.top)

\* line 46: body.skills || []
SkillsOrEmpty(b) == IF Truthy(SkillsField(b)) THEN SkillsField(b) ELSE Val("arr", 0)

\* line 51: skills.length === 0
SkillsEmpty(v) == LengthOf(v) = Val("num", 0)

Return(r) ==
    /\ response' = r
    /\ pc' = "returned"

\* lines 33-40
CheckKey ==
    /\ pc = "line33"
    /\ IF KeyNotConfigured(apiKey)
       THEN Return(ErrorResponse(500, MsgNoKey))
       ELSE pc' = "line43" /\ UNCHANGED response
    /\ UNCHANGED <<apiKey, eventBody, skills, upstream, error, posts, parsed, formatted>>
    /\ UNCHANGED fvars

\* lines 43-49
ParseBody ==
    /\ pc = "line43"
    /\ parsed' = parsed + 1
    /\ IF ParseThrows(eventBody)
       THEN Return(ErrorResponse(400, MsgInvalidBody)) /\ UNCHANGED skills
       ELSE /\ skills' = SkillsOrEmpty(eventBody)
            /\ pc' = "line51"
            /\ UNCHANGED response
    /\ UNCHANGED <<apiKey, eventBody, upstream, error, posts, formatted>>
    /\ UNCHANGED fvars

\* lines 51-53
CheckSkills ==
    /\ pc = "line51"
    /\ IF SkillsEmpty(skills)
       THEN Return(ErrorResponse(400, MsgNoSkills))
       ELSE pc' = "line56" /\ UNCHANGED response
    /\ UNCHANGED <<apiKey, eventBody, skills, upstream, error, posts, parsed, formatted>>
    /\ UNCHANGED fvars

\* lines 56-66; skills.join of line 59 is outside every try block
BuildPayload ==
    /\ pc = "line56"
    /\ IF HasJoin(skills)
       THEN pc' = "line70" /\ UNCHANGED error
       ELSE pc' = "rejected" /\ error' = MsgJoinNotAFunction
    /\ UNCHANGED <<apiKey, eventBody, skills, upstream, response, posts, parsed, formatted>>
    /\ UNCHANGED fvars

\* lines 70-74, the upstream answers
FetchResponds ==
    /\ pc = "line70"
    /\ posts' = posts + 1
    /\ \E r \in UpstreamResponses : upstream' = r
    /\ pc' = "line76"
    /\ UNCHANGED <<apiKey, eventBody, skills, error, response, parsed, formatted>>
    /\ UNCHANGED fvars

\* lines 70-74, the request fails (fetch rejects)
FetchFails ==
    /\ pc = "line70"
    /\ posts' = posts + 1
    /\ error' = MsgFetchFailed
    /\ pc' = "line99"
    /\ UNCHANGED <<apiKey, eventBody, skills, upstream, response, parsed, formatted>>
    /\ UNCHANGED fvars

\* lines 76-80
CheckOk ==
    /\ pc = "line76"
    /\ IF Ok(upstream)
       THEN pc' = "line82" /\ UNCHANGED error
       ELSE /\ pc' = "line99"
            /\ error' = IF ~upstream.body.isJson THEN MsgInvalidJson
                        ELSE IF upstream.body.isNull THEN MsgReadOfNull
                        ELSE MsgApiError(upstream.status, ErrorMessageOf(upstream.body))
    /\ UNCHANGED <<apiKey, eventBody, skills, upstream, response, posts, parsed, formatted>>
    /\ UNCHANGED fvars

\* lines 82-87
ReadResult ==
    /\ pc = "line82"
    /\ IF ~upstream.body.isJson
       THEN pc' = "line99" /\ error' = MsgInvalidJson
       ELSE IF upstream.body.isNull
       THEN pc' = "line99" /\ error' = MsgReadOfNull
       ELSE IF ~CandidateOf(upstream.body) \/ ~TextTruthy(upstream.body)
       THEN pc' = "line99" /\ error' = MsgNoContent
       ELSE pc' = "line90" /\ UNCHANGED error
    /\ UNCHANGED <<apiKey, eventBody, skills, upstream, response, posts, parsed, formatted>>
    /\ UNCHANGED fvars

\* lines 90-97
FormatAndReturn ==
    /\ pc = "line90"
    /\ formatted' = formatted + 1
    /\ IF upstream.body.textType = "str"
       THEN Return(HtmlResponse(formatAiTextToHtml(upstream.body.text))) /\ UNCHANGED error
       ELSE pc' = "line99" /\ error' = MsgNotAFunction /\ UNCHANGED response
    /\ UNCHANGED <<apiKey, eventBody, skills, upstream, posts, parsed>>
    /\ UNCHANGED fvars

\* a catch block that issues the request again
CatchMutant ==
    /\ pc = "line99"
    /\ IF posts < 2
       THEN pc' = "line70" /\ UNCHANGED response
       ELSE Return(ErrorResponse(500, error))
    /\ UNCHANGED <<apiKey, eventBody, skills, upstream, error, posts, parsed, formatted>>
    /\ UNCHANGED fvars

\* lines 99-108
Catch ==
    /\ pc = "line99"
    /\ Return(ErrorResponse(500, error))
    /\ UNCHANGED <<apiKey, eventBody, skills, upstream, error, posts, parsed, formatted>>
    /\ UNCHANGED fvars

FormatterIdle ==
    /\ fpc = "idle"
    /\ text = <<>>
    /\ html = <<>>
    /\ items = <<>>
    /\ bullet = "none"

Init ==
    /\ pc = "line33"
    /\ apiKey \in ApiKeys
    /\ eventBody \in EventBodies
    /\ skills = Val("arr", 0)
    /\ upstream = NoResponse
    /\ error = <<>>
    /\ response = NoReturn
    /\ posts = 0
    /\ parsed = 0
    /\ formatted = 0
    /\ FormatterIdle

Next ==
    \/ CheckKey
    \/ ParseBody
    \/ CheckSkills
    \/ BuildPayload
    \/ FetchResponds
    \/ FetchFails
    \/ CheckOk
    \/ ReadResult
    \/ FormatAndReturn
    \/ Catch

Spec == Init /\ [][Next]_vars

(***************************************************************************)
(* The formatter, one step per statement of lines 8-28.                    *)
(***************************************************************************)
\* line 9
Line9 ==
    /\ fpc = "line9"
    /\ html' = ReplaceHeadings(text, 1)
    /\ fpc' = "line10"
    /\ UNCHANGED <<text, items, bullet>>
    /\ UNCHANGED hvars

\* line 10
Line10 ==
    /\ fpc = "line10"
    /\ html' = ReplaceStarBullets(html, 1)
    /\ fpc' = "line11"
    /\ UNCHANGED <<text, items, bullet>>
    /\ UNCHANGED hvars

\* line 11
Line11 ==
    /\ fpc = "line11"
    /\ html' = ReplaceDigitBullets(html, 1)
    /\ fpc' = "line12"
    /\ UNCHANGED <<text, items, bullet>>
    /\ UNCHANGED hvars

\* lines 12-14
Line12 ==
    /\ fpc = "line12"
    /\ html' = WrapItemRuns(html, 1)
    /\ fpc' = "line15"
    /\ UNCHANGED <<text, items, bullet>>
    /\ UNCHANGED hvars

\* lines 15-18
Line15 ==
    /\ fpc = "line15"
    /\ html' = Paragraphs(html)
    /\ fpc' = "line19"
    /\ UNCHANGED <<text, items, bullet>>
    /\ UNCHANGED hvars

\* line 19
Line19 ==
    /\ fpc = "line19"
    /\ html' = WrapParagraph(html)
    /\ fpc' = "line20"
    /\ UNCHANGED <<text, items, bullet>>
    /\ UNCHANGED hvars

\* lines 20-26; line 27 returns html
Line20 ==
    /\ fpc = "line20"
    /\ html' = Cleanup(html)
    /\ fpc' = "line27"
    /\ UNCHANGED <<text, items, bullet>>
    /\ UNCHANGED hvars

NextFmt ==
    \/ Line9
    \/ Line10
    \/ Line11
    \/ Line12
    \/ Line15
    \/ Line19
    \/ Line20

HandlerIdle ==
    /\ pc = "idle"
    /\ apiKey = "undefined"
    /\ eventBody \in {b \in EventBodies : b.syntax = "absent"}
    /\ skills = Val("arr", 0)
    /\ upstream = NoResponse
    /\ error = <<>>
    /\ response = NoReturn
    /\ posts = 0
    /\ parsed = 0
    /\ formatted = 0

\* Raw texts: every concatenation of at most MaxPieces pieces, the inputs of
\* the documented examples, and texts whose bullet marker is followed by a
\* newline instead of a space.
Pieces == { <<"a">>, <<" ">>, <<NL>>, <<"*", "*">>, <<"*", " ">>, <<"1", ".", " ">> }

RECURSIVE Flatten(_)
Flatten(ss) == IF ss = <<>> THEN <<>> ELSE Head(ss) \o Flatten(Tail(ss))

Examples ==
    { <<"*", "*", "a", "*", "*", NL, "b", " ", "c">>,
      <<"*", " ", "a", NL, "*", " ", "b">>,
      <<"1", ".", " ", "a", NL, "2", ".", " ", "b">>,
      <<"*", " ", "*", "*", "a", "*", "*", " ", "b">>,
      <<"*", NL, "a">>,
      <<"1", ".", NL, "*", " ", "a">> }

RawTexts ==
    UNION { { Flatten(f) : f \in [1..n -> Pieces] } : n \in 0..MaxPieces } \cup Examples

InitFmt ==
    /\ HandlerIdle
    /\ fpc = "line9"
    /\ text \in RawTexts
    /\ html = <<>>
    /\ items = <<>>
    /\ bullet = "none"

SpecFmt == InitFmt /\ [][NextFmt]_vars

\* Bullet lists: 1..MaxItems lines "* <item>" or "<digit>. <item>", joined
\* by single newlines, the items being plain texts.
ItemTexts ==
    { <<>>, <<"a">>, <<"b">>, <<"a", " ", "b">>, <<" ", "a">>, <<"b", " ">> }
ItemLists == UNION { [1..n -> ItemTexts] : n \in 1..MaxItems }
DigitOf(i) == ToString(i % 10)
Marker(kind, i) == IF kind = "star" THEN <<"*", " ">> ELSE <<DigitOf(i), ".", " ">>

RECURSIVE BulletLines(_, _, _)
BulletLines(its, kind, i) ==
    IF i > Len(its) THEN <<>>
    ELSE (IF i = 1 THEN <<>> ELSE <<NL>>) \o Marker(kind, i) \o its[i]
             \o BulletLines(its, kind, i + 1)

InitList ==
    /\ HandlerIdle
    /\ fpc = "line9"
    /\ items \in ItemLists
    /\ bullet \in {"star", "digit"}
    /\ text = BulletLines(items, bullet, 1)
    /\ html = <<>>

SpecList == InitList /\ [][NextFmt]_vars

(***************************************************************************)
(* Properties of the handler (specification Spec).                         *)
(***************************************************************************)
KeyConfigured == apiKey \notin {"undefined", ""}
BodyParses == eventBody.syntax = "json"
Responded == pc = "returned" /\ posts = 1 /\ upstream # NoResponse

\* C1: every invocation completes by returning a response with status 200,
\* 400 or 500 and a JSON body {html} or {error}; no fault escapes the
\* handler as a rejected invocation.
C1_NoFaultEscapes ==
    /\ pc # "rejected"
    /\ pc = "returned" =>
          /\ response.statusCode \in {200, 400, 500}
          /\ response.kind \in {"html", "error"}

\* C2: with no API key configured (absent or empty) the handler returns 500
\* "API key is not configured on the server." for every request body,
\* without parsing the body and without an outbound call.
C2_NoKeyConfigured ==
    (~KeyConfigured /\ pc # "line33") =>
        /\ pc = "returned"
        /\ response = ErrorResponse(500, MsgNoKey)
        /\ parsed = 0
        /\ posts = 0

C2_Witness ==
    /\ pc = "returned"
    /\ apiKey = ""
    /\ eventBody.skills = Val("arr", 2)
    /\ response.statusCode = 500

\* C3: at most one outbound POST per invocation; it is issued only after the
\* key check, the body parse and the non-empty-skills check have passed, and
\* it is not issued again after a non-success status, a missing-content
\* response or a network fault.
C3_SinglePost ==
    /\ posts <= 1
    /\ posts = 1 =>
          /\ KeyConfigured
          /\ BodyParses
          /\ parsed = 1
          /\ skills.t = "arr" /\ skills.n > 0
          /\ pc \in {"line76", "line82", "line90", "line99", "returned"}
    /\ pc \in {"line76", "line82", "line90"} => posts = 1

C3_Witness ==
    /\ pc = "returned"
    /\ posts = 1
    /\ response.statusCode = 500
    /\ upstream = NoResponse

\* C4: whenever the upstream responds with a non-success status the handler
\* returns 500 {error: "API Error: <status> <message>"}, <message> being the
\* error message found in the upstream body or "" when none is present,
\* whatever the body of the upstream error response is.
C4_ApiError ==
    (Responded /\ upstream.status \notin 200..299) =>
        response = ErrorResponse(500,
            <<"API Error: ", ToString(upstream.status), " ",
              IF upstream.body.hasError THEN upstream.body.message ELSE "">>)

\* C5: whenever the upstream responds with a success status and the result
\* has no candidate, or the first candidate's first content part has no text,
\* the handler returns 500 "Invalid response from AI. No content found." and
\* the formatter is not invoked; 200 {html} is returned only when the text
\* is present.
NoCandidate(b) == b.isNull \/ b.path < 2
NoText(b) == b.path < 6 \/ (b.textType = "str" /\ b.text = <<>>)

C5_NoContent ==
    /\ (Responded /\ upstream.status \in 200..299 /\ upstream.body.isJson
            /\ (NoCandidate(upstream.body) \/ NoText(upstream.body))) =>
          /\ response = ErrorResponse(500, MsgNoContent)
          /\ formatted = 0
    /\ (pc = "returned" /\ response.statusCode = 200) =>
          /\ response.kind = "html"
          /\ ~NoText(upstream.body)

\* C6: with a key configured, a body that fails to parse yields 400 "Invalid
\* request body.", a body that parses but whose skills field is absent or an
\* empty sequence yields 400 "No skills provided.", both without an outbound
\* call, the parse gate being evaluated before the empty-skills gate.
SkillsAbsentOrEmpty == ~eventBody.hasSkills \/ eventBody.skills = Val("arr", 0)

C6_ClientFaults ==
    /\ (KeyConfigured /\ pc = "returned" /\ ~BodyParses) =>
          response = ErrorResponse(400, MsgInvalidBody) /\ posts = 0
    /\ (KeyConfigured /\ pc = "returned" /\ BodyParses /\ SkillsAbsentOrEmpty) =>
          response = ErrorResponse(400, MsgNoSkills) /\ posts = 0
    /\ pc = "line51" => parsed = 1

\* C6 as amended: with a key configured, a body that fails to parse or that
\* parses to null yields 400 "Invalid request body."; a body that parses to
\* a value other than null whose skills field is absent, falsy or an empty
\* sequence yields 400 "No skills provided."; both without an outbound call,
\* the parse gate being evaluated before the empty-skills gate.
SkillsFalsy ==
    \/ eventBody.skills.t = "null"
    \/ eventBody.skills.t \in {"bool", "num", "str"} /\ eventBody.skills.n = 0

C6_ClientFaultsAmended ==
    /\ (KeyConfigured /\ pc = "returned" /\ (~BodyParses \/ eventBody.top = Null)) =>
          response = ErrorResponse(400, MsgInvalidBody) /\ posts = 0
    /\ (KeyConfigured /\ pc = "returned" /\ BodyParses /\ eventBody.top # Null
            /\ (SkillsAbsentOrEmpty \/ SkillsFalsy)) =>
          response = ErrorResponse(400, MsgNoSkills) /\ posts = 0
    /\ pc = "line51" => parsed = 1

C6_Witness ==
    /\ pc = "returned"
    /\ apiKey = "KEY"
    /\ BodyParses
    /\ eventBody.top = Null
    /\ response = ErrorResponse(400, MsgInvalidBody)

(***************************************************************************)
(* Properties of the formatter (specifications SpecFmt and SpecList).      *)
(***************************************************************************)
Count(s, tok) == Cardinality({ i \in 1..Len(s) : s[i] = tok })
Range(s) == { s[i] : i \in 1..Len(s) }

CloseOf(t) ==
    CASE t = "<p>" -> "</p>"
      [] t = "<ul>" -> "</ul>"
      [] t = "<li>" -> "</li>"
      [] t = "<h3>" -> "</h3>"

\* Every opening tag has its closing tag and the elements nest; no <ul> or
\* <h3> inside a <p>, no <p> inside a <ul> or <h3>.  st is the stack of the
\* elements open at index i.
RECURSIVE Nested(_, _, _)
Nested(s, i, st) ==
    IF i > Len(s) THEN st = <<>>
    ELSE IF s[i] \in {"<p>", "<ul>", "<li>", "<h3>"}
         THEN /\ s[i] \in {"<ul>", "<h3>"} => "<p>" \notin Range(st)
              /\ s[i] = "<p>" => Range(st) \cap {"<ul>", "<h3>"} = {}
              /\ Nested(s, i + 1, <<s[i]>> \o st)
    ELSE IF s[i] \in {"</p>", "</ul>", "</li>", "</h3>"}
         THEN /\ st # <<>>
              /\ CloseOf(Head(st)) = s[i]
              /\ Nested(s, i + 1, Tail(st))
    ELSE Nested(s, i + 1, st)

\* C7: for every raw text built from plain words, newlines, bold markers,
\* star bullets and digit bullets the returned HTML is well nested: tags are
\* matched, no <ul> or <h3> lies inside a <p> and no <p> inside a <ul> or
\* <h3>.
C7_WellNested == fpc = "line27" => Nested(html, 1, <<>>)

\* The contents of the <li> elements of s, from index i on, in order.
RECURSIVE FirstIndex(_, _, _)
FirstIndex(s, i, tok) ==
    IF i > Len(s) THEN 0
    ELSE IF s[i] = tok THEN i
    ELSE FirstIndex(s, i + 1, tok)

RECURSIVE LiContents(_, _)
LiContents(s, i) ==
    IF i > Len(s) THEN <<>>
    ELSE IF s[i] = "<li>"
         THEN LET c == FirstIndex(s, i + 1, "</li>")
              IN  IF c = 0 THEN << <<"<li>">> >>
                  ELSE <<SubSeq(s, i + 1, c - 1)>> \o LiContents(s, c + 1)
    ELSE LiContents(s, i + 1)

\* C8: n >= 1 consecutive bullet lines yield exactly one <ul> wrapping
\* exactly n <li> elements that hold the item texts in their order, in no
\* paragraph; digit bullets give the same output as star bullets.
C8_OneList ==
    fpc = "line27" =>
        /\ Len(html) >= 2
        /\ html[1] = "<ul>" /\ html[Len(html)] = "</ul>"
        /\ Count(html, "<ul>") = 1 /\ Count(html, "</ul>") = 1
        /\ Count(html, "<li>") = Len(items) /\ Count(html, "</li>") = Len(items)
        /\ LiContents(html, 1) = items
        /\ Count(html, "<p>") = 0 /\ Count(html, "</p>") = 0
        /\ html = formatAiTextToHtml(BulletLines(items, "star", 1))

C8_Witness ==
    /\ fpc = "line27"
    /\ bullet = "digit"
    /\ Len(items) = 3
    /\ items[1] # items[2]
    /\ Count(html, "<li>") = 3

\* C9: after the heading, star-bullet and digit-bullet substitutions no line
\* holds both heading markup and list-item markup, and no line has been
\* turned into a list item twice.
SameLine(s, i, j) == \A k \in i..j : s[k] # NL

C9_OneClaimPerLine ==
    fpc = "line12" =>
        \A i, j \in 1..Len(html) :
            /\ (i < j /\ {html[i], html[j]} = {"<h3>", "<li>"}) => ~SameLine(html, i, j)
            /\ (i < j /\ html[i] = "<li>" /\ html[j] = "<li>") => ~SameLine(html, i, j)

\* The markers of a raw text.
HasBoldSpan(s) ==
    \E i, j \in 1..Len(s) :
        /\ i + 2 <= j /\ j + 1 <= Len(s)
        /\ s[i] = "*" /\ s[i + 1] = "*" /\ s[j] = "*" /\ s[j + 1] = "*"
        /\ SameLine(s, i, j)
LineStart(s, i) == i = 1 \/ s[i - 1] = NL
HasStarLine(s) ==
    \E i \in 1..Len(s) :
        LineStart(s, i) /\ i + 1 <= Len(s) /\ s[i] = "*" /\ s[i + 1] = " "
HasDigitLine(s) ==
    \E i \in 1..Len(s) :
        /\ LineStart(s, i) /\ i + 2 <= Len(s)
        /\ s[i] \in {"0", "1", "2", "3", "4", "5", "6", "7", "8", "9"}
        /\ s[i + 1] = "." /\ s[i + 2] = " "
\* the same after leading whitespace, the marker followed by any whitespace
HasIndentedBullet(s) ==
    \E i, j \in 1..Len(s) :
        /\ LineStart(s, i) /\ i <= j
        /\ \A k \in i..(j - 1) : s[k] \in {" ", NL}
        /\ \/ j + 1 <= Len(s) /\ s[j] = "*" /\ s[j + 1] \in {" ", NL}
           \/ /\ j + 2 <= Len(s)
              /\ s[j] \in {"0", "1", "2", "3", "4", "5", "6", "7", "8", "9"}
              /\ s[j + 1] = "." /\ s[j + 2] \in {" ", NL}
HasBlankLine(s) == \E i \in 1..(Len(s) - 1) : s[i] = NL /\ s[i + 1] = NL

NewlinesToSpaces(s) == [i \in 1..Len(s) |-> IF s[i] = NL THEN " " ELSE s[i]]
OneParagraph(s) == <<"<p>">> \o NewlinesToSpaces(s) \o <<"</p>">>
HasEmptyParagraph(s) == \E i \in 1..(Len(s) - 1) : s[i] = "<p>" /\ s[i + 1] = "</p>"

\* C10: a non-empty raw text with no **...** span, no line starting with
\* "* " and no line starting with "<digit>. " yields exactly one paragraph
\* holding the text with its newlines turned into spaces; the empty text
\* yields no empty paragraph.
C10_PlainText ==
    fpc = "line27" =>
        /\ (text # <<>> /\ ~HasBoldSpan(text) /\ ~HasStarLine(text) /\ ~HasDigitLine(text))
              => html = OneParagraph(text)
        /\ text = <<>> => ~HasEmptyParagraph(html)

\* C10 as amended: a non-empty raw text with no **...** span, no line whose
\* first non-blank characters are "*" or "<digit>." followed by whitespace,
\* and no blank line (two consecutive newlines) yields exactly one paragraph
\* holding the text with its newlines turned into spaces; the empty text
\* yields no empty paragraph.
C10_PlainTextAmended ==
    fpc = "line27" =>
        /\ (text # <<>> /\ ~HasBoldSpan(text) /\ ~HasIndentedBullet(text)
                /\ ~HasBlankLine(text))
              => html = OneParagraph(text)
        /\ text = <<>> => ~HasEmptyParagraph(html)

C10_Witness ==
    /\ fpc = "line27"
    /\ text = <<"a", NL, "*", "*", " ", "a">>
    /\ html = <<"<p>", "a", " ", "*", "*", " ", "a", "</p>">>

====
